---------------------------- MODULE Spec2Model ----------------------------
(***************************************************************************)
(* Model of GeminiGUI/src-tauri/src/lib.rs: the two streaming decoders     *)
(* (prompt_ollama_stream, prompt_gemini_stream), the process multiplexer   *)
(* (spawn_swarm_agent) and the commands on the two JSON stores (the        *)
(* approval queue in bridge.json; the memory log and the knowledge graph   *)
(* in agent_memory.json).                                                  *)
(*                                                                         *)
(* One session runs per behaviour; cmd names the command the UI invoked.   *)
(* Commands that run at the same time (two streams, two mutators of the    *)
(* memory store) are sessions of their own, "streams" and "mutators".      *)
(* Every call of window.emit is logged in emitted, with ok = FALSE when    *)
(* the call returned Err (the receiving side is gone).                     *)
(*                                                                         *)
(* Text is a TLA+ string where the code only concatenates it, and a        *)
(* sequence of one-character strings (Decoder B) or of JSON lexemes        *)
(* (Decoder A) where the code scans or parses it.                          *)
(***************************************************************************)
EXTENDS Naturals, Sequences, FiniteSets, TLC

VARIABLES
    cmd,         \* the commands of the session: "ollama" | "gemini" | "swarm"
                 \* | "bridge" | "memory" | "graph" | "streams" | "mutators"
    consumer,    \* TRUE while the receiving side of the event channel exists
    emitted,     \* the calls of window.emit so far: [chunk, done, by, ok]
    result,      \* what the command returned: "none" | "ok" | "err_read" | "err_emit"
    body,        \* decoders: the bytes the byte source has yet to deliver
    input,       \* decoders: the whole body of the response (history)
    pipe,        \* swarm: per stream, the lines written and not yet read
    written,     \* swarm: per stream, every line the child wrote (history)
    childState,  \* swarm: "running" | "exited"
    exitStatus,  \* swarm: the child's exit status once exited
    pcF,         \* swarm: per stream, the forwarder's position
    cur,         \* swarm: per stream, the line the forwarder holds
    pcW,         \* swarm: the exit-wait thread's position
    waitRes,     \* swarm: what child.wait() returned
    bridgeFile,  \* stores: bridge.json, [kind, data]
    memFile,     \* stores: agent_memory.json, [kind, data]
    ret,         \* stores: what the last store command returned: [op, ok, val, err]
    lastSet,     \* bridge: per request id, the status the last approve_request
                 \* or reject_request that returned Ok set for it, and the
                 \* status that call found (history)
    sessions,    \* concurrent streams: per session, the command and the
                 \* events it has yet to emit
    channels,    \* concurrent streams: per event name, the events the
                 \* window's listeners were delivered: [chunk, done, from]
    held         \* concurrent mutators: per command in progress, its position
                 \* and the store it loaded and changed in memory

vars == <<cmd, consumer, emitted, result, body, input,
          pipe, written, childState, exitStatus, pcF, cur, pcW, waitRes,
          bridgeFile, memFile, ret, lastSet, sessions, channels, held>>

decoderVars == <<body, input>>
swarmVars == <<pipe, written, childState, exitStatus, pcF, cur, pcW, waitRes>>
storeVars == <<bridgeFile, memFile, ret, lastSet>>
concVars == <<sessions, channels, held>>

\* ------------------------------------------------------------------ bounds

\* Lines the child writes, over its two streams together.
MaxLines == 3

\* Lines in the body of a Decoder A response; fragments in a Decoder B one.
MaxBodyLines == 2
MaxFrags == 2

\* Requests in the approval queue when the UI starts.
MaxRequests == 2

\* The cap of the memory log, 1000 in add_agent_memory, scaled down.
MaxMemories == 2

\* The caps of the graph's nodes and edges, 500 in add_knowledge_node and 1000
\* in add_knowledge_edge, scaled down.
MaxNodes == 2
MaxEdges == 1

\* ------------------------------------------------------------ common parts

\* StreamPayload { chunk, done }, with the emitting unit and the call's outcome.
StreamPayload(chunk, done, by) ==
    [chunk |-> chunk, done |-> done, by |-> by, ok |-> consumer]

\* The commands that emit events to the window.
Streaming == {"ollama", "gemini", "swarm"}

\* The receiving side of the channel goes away (the window is closed).
ConsumerGone ==
    /\ cmd \in Streaming
    /\ consumer
    /\ consumer' = FALSE
    /\ UNCHANGED <<concVars, storeVars, cmd, emitted, result, decoderVars, swarmVars>>

\* ------------------------------------------------------- the store files

\* A default with auto_approve off.
BridgeDefaultOff == [requests |-> <<>>, auto_approve |-> FALSE]

\* impl Default for BridgeData: no requests, auto_approve on.
BridgeDefault == [requests |-> <<>>, auto_approve |-> TRUE]

\* #[derive(Default)] for KnowledgeGraph and MemoryStore.
GraphDefault == [nodes |-> <<>>, edges |-> <<>>]
MemoryDefault == [memories |-> <<>>, graph |-> GraphDefault]

\* The ids approve_request and reject_request are called with; the producer
\* of requests uses the first two.
QueueIds == {"r1", "r2"}
CallIds == QueueIds \cup {"r9"}

\* No approve_request or reject_request has returned Ok for the id.
NoDecision == [set |-> "none", was |-> "none"]

\* A store file is absent, present and unreadable (read_to_string returns
\* Err), present with content serde_json cannot parse into the structure
\* ("corrupt": an empty or partly written file is one), or "json": the
\* serialization of data.
FileKinds == {"absent", "unreadable", "corrupt", "json"}
NoData(kind, default) == [kind |-> kind, data |-> default]
Json(data) == [kind |-> "json", data |-> data]

\* read_bridge_data / read_memory_store: the default value unless the file
\* exists, can be read and parses.
Load(file, default) == IF file.kind = "json" THEN file.data ELSE default

read_bridge_data == Load(bridgeFile, BridgeDefault)
read_memory_store == Load(memFile, MemoryDefault)

\* fs::write(path, content) is File::create, which truncates, followed by
\* write_all. It succeeds ("ok"), fails to open the file and leaves it as it
\* was ("denied"), or fails after the truncation and leaves an empty or partly
\* written file ("torn").
SaveOutcomes == {"ok", "denied", "torn"}

\* The file after write_bridge_data / write_memory_store of data.
Save(file, data, default, outcome) ==
    CASE outcome = "ok" -> Json(data)
      [] outcome = "denied" -> file
      [] outcome = "torn" -> NoData("corrupt", default)

\* The Err of a failed save (e.to_string() of the I/O error).
SaveError(outcome) ==
    IF outcome = "denied" THEN "Permission denied (os error 13)"
    ELSE "No space left on device (os error 28)"

\* Result<T, String>: Ok(val) or Err(err), with the command that returned it.
RetOk(op, val) == [op |-> op, ok |-> TRUE, val |-> <<val>>, err |-> ""]
RetErr(op, err) == [op |-> op, ok |-> FALSE, val |-> <<>>, err |-> err]
NoCall == [op |-> "", ok |-> FALSE, val |-> <<>>, err |-> ""]

\* A mutator that returns its value together with the error of the save.
AfterSaveKeepsValue(op, val, outcome) ==
    IF outcome = "ok" THEN RetOk(op, val)
    ELSE [op |-> op, ok |-> FALSE, val |-> <<val>>, err |-> SaveError(outcome)]

\* The result of a mutator whose save had the given outcome:
\* write_..(&data)?; Ok(val)
AfterSave(op, val, outcome) ==
    IF outcome = "ok" THEN RetOk(op, val) ELSE RetErr(op, SaveError(outcome))

IdleStores ==
    /\ bridgeFile = NoData("absent", BridgeDefault)
    /\ memFile = NoData("absent", MemoryDefault)
    /\ ret = NoCall
    /\ lastSet = [id \in CallIds |-> NoDecision]

\* No concurrent sessions or mutators: the commands run one at a time.
NoTasks ==
    /\ sessions = <<>>
    /\ channels = <<>>
    /\ held = <<>>

\* ------------------------------------------------------ the byte source

\* The sizes the next chunk can have: any non-empty prefix of what is left.
ChunkSizes == 1..Len(body)

\* The concatenation of a sequence of sequences.
RECURSIVE Flatten(_)
Flatten(ss) == IF ss = <<>> THEN <<>> ELSE Head(ss) \o Flatten(Tail(ss))

\* The sequences over S of length 0..n.
SeqsUpTo(S, n) == UNION {[1..m -> S] : m \in 0..n}

\* The first place pat occurs in text, 0 when it does not (str::find).
Find(text, pat) ==
    LET hits == {i \in 1..(Len(text) + 1 - Len(pat)) :
                    SubSeq(text, i, i + Len(pat) - 1) = pat}
    IN IF Len(pat) > Len(text) \/ hits = {} THEN 0
       ELSE CHOOSE i \in hits : \A j \in hits : i <= j

\* A decoder that drops the error of a failed emit and goes on.
EmitResultSwallowed(failed) == "none"

\* emit(..).map_err(|e| e.to_string())? : what a decoder goes on with after
\* its emit calls, "none" standing for still running.
EmitResult(failed) == IF failed THEN "err_emit" ELSE "none"

\* The emit calls a decoder makes for the events evs of one chunk, failAt
\* being the call that fails (0: none does): the calls stop at the failure.
EmitCalls(evs, failAt) ==
    [i \in 1..(IF failAt = 0 THEN Len(evs) ELSE failAt) |->
        [chunk |-> evs[i].chunk, done |-> evs[i].done, by |-> "decoder",
         ok |-> (failAt = 0 \/ i < failAt)]]

\* Which emit call of Len(evs) can fail: the first when the consumer is gone
\* already, any one (the consumer leaves just before it) or none otherwise.
FailPoints(n) == IF consumer THEN 0..n ELSE {IF n = 0 THEN 0 ELSE 1}

IdleSwarm ==
    /\ pipe = [u \in {"stdout", "stderr"} |-> <<>>]
    /\ written = [u \in {"stdout", "stderr"} |-> <<>>]
    /\ childState = "none"
    /\ exitStatus = ""
    /\ pcF = [u \in {"stdout", "stderr"} |-> "idle"]
    /\ cur = [u \in {"stdout", "stderr"} |-> ""]
    /\ pcW = "idle"
    /\ waitRes = [ok |-> FALSE, status |-> "", err |-> ""]

\* ------------------------------------------- Decoder A: prompt_ollama_stream

\* The body is a sequence of JSON lexemes, newlines and invalid bytes; a chunk
\* boundary falls between two of them (a boundary inside a lexeme breaks the
\* line the same way). White space and arrays are left out.
P(c) == [k |-> "punct", v |-> c]
S(c) == [k |-> "str", v |-> c]
Lit(c) == [k |-> "lit", v |-> c]
Num(c) == [k |-> "num", v |-> c]
NL == [k |-> "nl", v |-> "\n"]
BadA == [k |-> "bad", v |-> "FF"]

\* {"message":{"content":c},"done":d}
ChatLine(c, d) ==
    <<P("{"), S("message"), P(":"), P("{"), S("content"), P(":"), c, P("}"),
      P(","), S("done"), P(":"), d, P("}")>>

OllamaLines == {
    ChatLine(S("Hi"), Lit("false")),
    ChatLine(S(" there"), Lit("true")),
    ChatLine(Num("1"), Lit("true")),
    <<P("{"), S("message"), P(":"), P("{"), S("content"), P(":"), S("Hi"), P("}"), P("}")>>,
    <<P("{"), S("message"), P(":")>>,
    <<BadA>> }

\* The bodies: up to MaxBodyLines lines, each ended by a newline, the last
\* one with or without it.
OllamaBodies ==
    LET full == {Flatten([i \in 1..Len(ls) |-> Append(ls[i], NL)]) :
                    ls \in SeqsUpTo(OllamaLines, MaxBodyLines)}
    IN full \cup {SubSeq(b, 1, Len(b) - 1) : b \in full \ {<<>>}}

\* serde_json::Value
JStr(c) == [t |-> "str", s |-> c, b |-> FALSE, m |-> <<>>]
JBool(x) == [t |-> "bool", s |-> "", b |-> x, m |-> <<>>]
JNull == [t |-> "null", s |-> "", b |-> FALSE, m |-> <<>>]
JNum(c) == [t |-> "num", s |-> c, b |-> FALSE, m |-> <<>>]
JObj(ms) == [t |-> "obj", s |-> "", b |-> FALSE, m |-> ms]

None == [some |-> FALSE, val |-> JNull]
Some(x) == [some |-> TRUE, val |-> x]

NoParse == [ok |-> FALSE, val |-> JNull, next |-> 0]

\* The JSON value starting at lexeme i of t, and where it ends.
RECURSIVE ParseValue(_, _)
RECURSIVE ParseMembers(_, _, _)
ParseValue(t, i) ==
    IF i > Len(t) THEN NoParse
    ELSE CASE t[i].k = "str" -> [ok |-> TRUE, val |-> JStr(t[i].v), next |-> i + 1]
           [] t[i].k = "num" -> [ok |-> TRUE, val |-> JNum(t[i].v), next |-> i + 1]
           [] t[i].k = "lit" ->
                [ok |-> TRUE,
                 val |-> IF t[i].v = "null" THEN JNull ELSE JBool(t[i].v = "true"),
                 next |-> i + 1]
           [] t[i] = P("{") ->
                IF i + 1 <= Len(t) /\ t[i + 1] = P("}")
                THEN [ok |-> TRUE, val |-> JObj(<<>>), next |-> i + 2]
                ELSE ParseMembers(t, i + 1, <<>>)
           [] OTHER -> NoParse

\* The members of an object from lexeme i on, acc being those read so far.
ParseMembers(t, i, acc) ==
    IF i + 1 > Len(t) \/ t[i].k # "str" \/ t[i + 1] # P(":") THEN NoParse
    ELSE LET r == ParseValue(t, i + 2)
             ms == Append(acc, [key |-> t[i].v, val |-> r.val])
         IN IF ~r.ok \/ r.next > Len(t) THEN NoParse
            ELSE IF t[r.next] = P("}")
                 THEN [ok |-> TRUE, val |-> JObj(ms), next |-> r.next + 1]
            ELSE IF t[r.next] = P(",") THEN ParseMembers(t, r.next + 1, ms)
            ELSE NoParse

\* serde_json::from_str::<Value>(line): the whole line is one value.
FromStr(line) ==
    LET r == ParseValue(line, 1)
    IN IF r.ok /\ r.next = Len(line) + 1 THEN Some(r.val) ELSE None

\* Value::get(key) behind and_then: the member of an object, the last one of
\* that key.
Get(o, key) ==
    IF ~o.some \/ o.val.t # "obj" THEN None
    ELSE LET hits == {i \in 1..Len(o.val.m) : o.val.m[i].key = key}
         IN IF hits = {} THEN None
            ELSE Some(o.val.m[CHOOSE i \in hits : \A j \in hits : j <= i].val)

\* String::from_utf8(chunk.to_vec()) is Ok.
Utf8OkA(chunk) == \A i \in 1..Len(chunk) : chunk[i].k # "bad"

\* str::lines: the pieces between newlines, without a final empty piece.
RECURSIVE SplitLines(_)
SplitLines(text) ==
    IF text = <<>> THEN <<>>
    ELSE LET i == Find(text, <<NL>>)
         IN IF i = 0 THEN <<text>>
            ELSE <<SubSeq(text, 1, i - 1)>> \o SplitLines(SubSeq(text, i + 1, Len(text)))

\* The events of one line: none, or one {chunk: content, done}.
LineEvents(line) ==
    LET json == FromStr(line)
        content == Get(Get(json, "message"), "content")
        d == Get(json, "done")
    IN IF content.some /\ content.val.t = "str"
       THEN <<[chunk |-> content.val.s,
               done |-> IF d.some /\ d.val.t = "bool" THEN d.val.b ELSE FALSE]>>
       ELSE <<>>

\* The events of one chunk: those of its lines, none when it is not UTF-8.
ChunkEventsA(chunk) ==
    IF ~Utf8OkA(chunk) THEN <<>>
    ELSE LET ls == SplitLines(chunk)
         IN Flatten([i \in 1..Len(ls) |-> LineEvents(ls[i])])

OllamaInit ==
    /\ cmd = "ollama"
    /\ consumer = TRUE
    /\ emitted = <<>>
    /\ result = "none"
    /\ input \in OllamaBodies
    /\ body = input
    /\ IdleSwarm
    /\ IdleStores
    /\ NoTasks

\* One turn of the while loop: stream.next() yields a chunk of k lexemes,
\* whose lines are parsed and emitted; a failed emit returns the error.
OllamaChunk(k) ==
    /\ cmd = "ollama"
    /\ result = "none"
    /\ LET evs == ChunkEventsA(SubSeq(body, 1, k))
       IN \E failAt \in FailPoints(Len(evs)) :
             /\ emitted' = emitted \o EmitCalls(evs, failAt)
             /\ consumer' = (consumer /\ failAt = 0)
             /\ result' = EmitResult(failAt # 0)
    /\ body' = SubSeq(body, k + 1, Len(body))
    /\ UNCHANGED <<concVars, storeVars, cmd, input, swarmVars>>

\* stream.next() yields Err: item.map_err(..)? returns it.
OllamaReadFail ==
    /\ cmd = "ollama"
    /\ result = "none"
    /\ result' = "err_read"
    /\ UNCHANGED <<concVars, storeVars, cmd, consumer, emitted, decoderVars, swarmVars>>

\* stream.next() yields None: the loop ends and the command returns Ok(()).
OllamaEnd ==
    /\ cmd = "ollama"
    /\ result = "none"
    /\ body = <<>>
    /\ result' = "ok"
    /\ UNCHANGED <<concVars, storeVars, cmd, consumer, emitted, decoderVars, swarmVars>>

OllamaNext ==
    \/ \E k \in ChunkSizes : OllamaChunk(k)
    \/ OllamaReadFail
    \/ OllamaEnd
    \/ ConsumerGone

OllamaSpec == OllamaInit /\ [][OllamaNext]_vars

\* ------------------------------------------- Decoder B: prompt_gemini_stream

\* The body is a sequence of characters (one-character strings) and invalid bytes.
BadB == "FF"
Quote == "\""

\* "\"text\": \"", and the 9 of text[start + 9..]
Marker == <<Quote, "t", "e", "x", "t", Quote, ":", " ", Quote>>
MarkerLen == 9

\* "text": "Hi"        "text": "a\"b"        "text": "x\ny"        "Hi"}
GeminiFrags == {
    Marker \o <<"H", "i", Quote>>,
    Marker \o <<"a", "\\", Quote, "b", Quote>>,
    Marker \o <<"x", "\\", "n", "y", Quote>>,
    <<Quote, "H", "i", Quote, "}">>,
    <<BadB>> }

GeminiBodies == {Flatten(fs) : fs \in SeqsUpTo(GeminiFrags, MaxFrags)}

\* The string of a sequence of characters.
RECURSIVE Str(_)
Str(cs) == IF cs = <<>> THEN "" ELSE Head(cs) \o Str(Tail(cs))

\* String::from_utf8(chunk.to_vec()) is Ok.
Utf8OkB(chunk) == \A i \in 1..Len(chunk) : chunk[i] # BadB

\* str::replace(from, to): every non-overlapping occurrence, left to right.
RECURSIVE Replace(_, _, _)
Replace(text, from, to) ==
    IF Len(text) < Len(from) THEN text
    ELSE IF SubSeq(text, 1, Len(from)) = from
         THEN to \o Replace(SubSeq(text, Len(from) + 1, Len(text)), from, to)
         ELSE <<Head(text)>> \o Replace(Tail(text), from, to)

\* rest.find("\""): where the value is taken to end.
FindEnd(rest) == Find(rest, <<Quote>>)

\* content.replace("\\n", "\n").replace("\\\"", "\"")
Unescape(content) ==
    Replace(Replace(content, <<"\\", "n">>, <<"\n">>), <<"\\", Quote>>, <<Quote>>)

\* The events of one chunk: none, or one {chunk: unescaped, done: false}.
ChunkEventsB(chunk) ==
    IF ~Utf8OkB(chunk) THEN <<>>
    ELSE LET start == Find(chunk, Marker)
             rest == SubSeq(chunk, start + MarkerLen, Len(chunk))
             end == FindEnd(rest)
         IN IF start = 0 \/ end = 0 THEN <<>>
            ELSE <<[chunk |-> Str(Unescape(SubSeq(rest, 1, end - 1))), done |-> FALSE]>>

\* A final event that does not mark completion.
FinalEventNotDone == [chunk |-> "", done |-> FALSE]

\* The event emitted after the loop.
FinalEvent == [chunk |-> "", done |-> TRUE]

GeminiInit ==
    /\ cmd = "gemini"
    /\ consumer = TRUE
    /\ emitted = <<>>
    /\ result = "none"
    /\ input \in GeminiBodies
    /\ body = input
    /\ IdleSwarm
    /\ IdleStores
    /\ NoTasks

\* One turn of the while loop: stream.next() yields a chunk of k characters,
\* which is scanned for the marker; a failed emit returns the error.
GeminiChunk(k) ==
    /\ cmd = "gemini"
    /\ result = "none"
    /\ LET evs == ChunkEventsB(SubSeq(body, 1, k))
       IN \E failAt \in FailPoints(Len(evs)) :
             /\ emitted' = emitted \o EmitCalls(evs, failAt)
             /\ consumer' = (consumer /\ failAt = 0)
             /\ result' = EmitResult(failAt # 0)
    /\ body' = SubSeq(body, k + 1, Len(body))
    /\ UNCHANGED <<concVars, storeVars, cmd, input, swarmVars>>

\* A read failure that leaves the loop and falls through to the final emit.
GeminiReadFailThenFinal ==
    /\ cmd = "gemini"
    /\ result = "none"
    /\ result' = "err_read"
    /\ emitted' = emitted \o EmitCalls(<<FinalEvent>>, IF consumer THEN 0 ELSE 1)
    /\ UNCHANGED <<concVars, storeVars, cmd, consumer, decoderVars, swarmVars>>

\* stream.next() yields Err: item.map_err(..)? returns it.
GeminiReadFail ==
    /\ cmd = "gemini"
    /\ result = "none"
    /\ result' = "err_read"
    /\ UNCHANGED <<concVars, storeVars, cmd, consumer, emitted, decoderVars, swarmVars>>

\* stream.next() yields None: the loop ends, the final event is emitted and
\* the command returns Ok(()), or the error of the emit.
GeminiEnd ==
    /\ cmd = "gemini"
    /\ result = "none"
    /\ body = <<>>
    /\ \E failAt \in FailPoints(1) :
          /\ emitted' = emitted \o EmitCalls(<<FinalEvent>>, failAt)
          /\ consumer' = (consumer /\ failAt = 0)
          /\ result' = IF failAt # 0 THEN EmitResult(TRUE) ELSE "ok"
    /\ UNCHANGED <<concVars, storeVars, cmd, decoderVars, swarmVars>>

GeminiNext ==
    \/ \E k \in ChunkSizes : GeminiChunk(k)
    \/ GeminiReadFail
    \/ GeminiEnd
    \/ ConsumerGone

GeminiSpec == GeminiInit /\ [][GeminiNext]_vars

\* --------------------------------------------------------- spawn_swarm_agent

Streams == {"stdout", "stderr"}

\* What a stream carries, line by line: a line that is valid UTF-8, or bytes up
\* to a newline that are not (read_line returns Err for them). The child's
\* n-th line, over both streams, has the text LineTexts[n].
LineTexts == <<"a", "b", "c", "d", "e", "f">>
LineItem(n, ok) == [ok |-> ok, text |-> IF ok THEN LineTexts[n] ELSE ""]
LinesWritten == Len(written["stdout"]) + Len(written["stderr"])

\* Exit statuses: code 0, code 1, killed by a signal (no code).
ExitStatuses == {"0", "1", "signal"}
WaitErrors == {"ECHILD"}

\* ExitStatus::success
Success(s) == s = "0"

\* format!("{:?}", s.code())
DebugCode(s) == IF s = "signal" THEN "None" ELSE "Some(" \o s \o ")"

\* A stderr forwarder that leaves the prefix out.
LineChunkNoPrefix(u, line) == line \o "\n"

\* The chunk of the forwarded line: line + "\n", and "[ERR] {}\n" for stderr.
LineChunk(u, line) ==
    IF u = "stdout" THEN line \o "\n" ELSE "[ERR] " \o line \o "\n"

\* A terminal message that takes every returned status for success.
TerminalMsgAnyStatus(w) ==
    IF w.ok THEN "\n[SWARM COMPLETED SUCCESSFULLY]\n"
    ELSE "\n[SWARM ERROR: " \o w.err \o "]\n"

\* The terminal message of the exit-wait thread.
TerminalMsg(w) ==
    IF w.ok /\ Success(w.status) THEN "\n[SWARM COMPLETED SUCCESSFULLY]\n"
    ELSE IF w.ok THEN "\n[SWARM EXITED WITH CODE: " \o DebugCode(w.status) \o "]\n"
    ELSE "\n[SWARM ERROR: " \o w.err \o "]\n"

NoWait == [ok |-> FALSE, status |-> "", err |-> ""]

\* The state once spawn_swarm_agent has spawned the child, started the three
\* threads and returned Ok(()).
SwarmInit ==
    /\ cmd = "swarm"
    /\ consumer = TRUE
    /\ emitted = <<>>
    /\ result = "ok"
    /\ body = <<>> /\ input = <<>>
    /\ pipe = [u \in Streams |-> <<>>]
    /\ written = [u \in Streams |-> <<>>]
    /\ childState = "running"
    /\ exitStatus = ""
    /\ pcF = [u \in Streams |-> "read"]
    /\ cur = [u \in Streams |-> ""]
    /\ pcW = "wait"
    /\ waitRes = NoWait
    /\ IdleStores
    /\ NoTasks

\* The child writes one line to one of its streams, valid UTF-8 or not.
ChildWrite(u, ok) ==
    /\ cmd = "swarm"
    /\ childState = "running"
    /\ LinesWritten < MaxLines
    /\ pipe' = [pipe EXCEPT ![u] = Append(@, LineItem(LinesWritten + 1, ok))]
    /\ written' = [written EXCEPT ![u] = Append(@, LineItem(LinesWritten + 1, ok))]
    /\ UNCHANGED <<concVars, storeVars, cmd, consumer, emitted, result, decoderVars,
                   childState, exitStatus, pcF, cur, pcW, waitRes>>

\* The child exits; the write ends of its pipes close.
ChildExit(s) ==
    /\ cmd = "swarm"
    /\ childState = "running"
    /\ childState' = "exited"
    /\ exitStatus' = s
    /\ UNCHANGED <<concVars, storeVars, cmd, consumer, emitted, result, decoderVars,
                   pipe, written, pcF, cur, pcW, waitRes>>

\* reader.lines().flatten(): the next item of the iterator. An Err item
\* (undecodable line) is dropped by flatten; end of file ends the loop.
ForwarderRead(u) ==
    /\ cmd = "swarm"
    /\ pcF[u] = "read"
    /\ IF pipe[u] # <<>>
       THEN /\ pipe' = [pipe EXCEPT ![u] = Tail(@)]
            /\ IF Head(pipe[u]).ok
               THEN /\ cur' = [cur EXCEPT ![u] = Head(pipe[u]).text]
                    /\ pcF' = [pcF EXCEPT ![u] = "emit"]
               ELSE UNCHANGED <<cur, pcF>>
       ELSE /\ childState = "exited"
            /\ pcF' = [pcF EXCEPT ![u] = "done"]
            /\ UNCHANGED <<pipe, cur>>
    /\ UNCHANGED <<concVars, storeVars, cmd, consumer, emitted, result, decoderVars,
                   written, childState, exitStatus, pcW, waitRes>>

\* let _ = window.emit("swarm-data", StreamPayload { chunk, done: false })
ForwarderEmit(u) ==
    /\ cmd = "swarm"
    /\ pcF[u] = "emit"
    /\ emitted' = Append(emitted, StreamPayload(LineChunk(u, cur[u]), FALSE, u))
    /\ pcF' = [pcF EXCEPT ![u] = "read"]
    /\ UNCHANGED <<concVars, storeVars, cmd, consumer, result, decoderVars,
                   pipe, written, childState, exitStatus, cur, pcW, waitRes>>

\* child.wait() returns the exit status of the exited child.
WaitReturn ==
    /\ cmd = "swarm"
    /\ pcW = "wait"
    /\ childState = "exited"
    /\ waitRes' = [ok |-> TRUE, status |-> exitStatus, err |-> ""]
    /\ pcW' = "emit"
    /\ UNCHANGED <<concVars, storeVars, cmd, consumer, emitted, result, decoderVars,
                   pipe, written, childState, exitStatus, pcF, cur>>

\* child.wait() returns Err.
WaitFail(e) ==
    /\ cmd = "swarm"
    /\ pcW = "wait"
    /\ waitRes' = [ok |-> FALSE, status |-> "", err |-> e]
    /\ pcW' = "emit"
    /\ UNCHANGED <<concVars, storeVars, cmd, consumer, emitted, result, decoderVars,
                   pipe, written, childState, exitStatus, pcF, cur>>

\* let _ = window.emit("swarm-data", StreamPayload { chunk: msg, done: true })
WaitEmit ==
    /\ cmd = "swarm"
    /\ pcW = "emit"
    /\ emitted' = Append(emitted, StreamPayload(TerminalMsg(waitRes), TRUE, "wait"))
    /\ pcW' = "done"
    /\ UNCHANGED <<concVars, storeVars, cmd, consumer, result, decoderVars,
                   pipe, written, childState, exitStatus, pcF, cur, waitRes>>

SwarmNext ==
    \/ \E u \in Streams, ok \in BOOLEAN : ChildWrite(u, ok)
    \/ \E s \in ExitStatuses : ChildExit(s)
    \/ \E u \in Streams : ForwarderRead(u)
    \/ \E u \in Streams : ForwarderEmit(u)
    \/ WaitReturn
    \/ \E e \in WaitErrors : WaitFail(e)
    \/ WaitEmit
    \/ ConsumerGone

SwarmSpec == SwarmInit /\ [][SwarmNext]_vars

\* The three threads are operating-system threads: each one that can take a
\* step eventually takes it.
SwarmFairSpec ==
    /\ SwarmSpec
    /\ WF_vars(WaitReturn)
    /\ WF_vars(WaitEmit)
    /\ \A u \in Streams : WF_vars(ForwarderRead(u)) /\ WF_vars(ForwarderEmit(u))

\* ------------------------------------- spawn_swarm_agent: the call itself

\* An objective is its first characters, text, followed by fill bytes that
\* are none of the dangerous characters.
Objective(text, fill) == [text |-> text, fill |-> fill]

\* objective.contains(c) and objective.len()
Contains(objective, c) == \E i \in 1..Len(objective.text) : objective.text[i] = c
ByteLen(objective) == Len(objective.text) + objective.fill

\* The grave accent (U+0060), which a string of this language cannot hold.
Grave == "U+0060"

\* A list of dangerous characters without the dollar sign.
DangerousCharsNoDollar == <<Grave, "|", "&", ";", ">", "<", "\n", "\r">>

\* let dangerous_chars = [.., '$', '|', '&', ';', '>', '<', '\n', '\r'], the
\* first being the grave accent.
DangerousChars == <<Grave, "$", "|", "&", ";", ">", "<", "\n", "\r">>

\* if objective.len() > 1000
MaxObjectiveLen == 1000

\* The objectives the command is called with: plain ones of 2, 1000 and 1001
\* bytes, one with each dangerous character, one with two of them.
Objectives ==
    {Objective(<<"g", "o">>, fill) : fill \in {0, MaxObjectiveLen - 2, MaxObjectiveLen - 1}}
    \cup {Objective(<<"g", c>>, 0) : c \in {Grave, "$", "|", "&", ";", ">", "<", "\n", "\r"}}
    \cup {Objective(<<";", "$">>, 0)}

\* The first dangerous character, in the order of the list, that the
\* objective contains; 0 when it contains none.
FirstDangerous(objective) ==
    LET hits == {i \in 1..Len(DangerousChars) : Contains(objective, DangerousChars[i])}
    IN IF hits = {} THEN 0 ELSE CHOOSE i \in hits : \A j \in hits : i <= j

\* What the checks before the spawn return: an error message, "" to go on.
Validate(objective) ==
    IF FirstDangerous(objective) # 0
    THEN "SECURITY: Objective contains dangerous character '"
         \o DangerousChars[FirstDangerous(objective)] \o "'. Blocked for safety."
    ELSE IF ByteLen(objective) > MaxObjectiveLen
    THEN "SECURITY: Objective too long (max 1000 characters)"
    ELSE ""

\* What the environment answers once the objective is accepted: the module
\* file is missing, the process cannot be started, or it starts.
SpawnOutcomes == {"no_module", "spawn_failed", "spawned"}

\* The state when the UI invokes spawn_swarm_agent.
SwarmCallInit ==
    /\ cmd = "swarm"
    /\ consumer = TRUE
    /\ emitted = <<>>
    /\ result = "none"
    /\ body = <<>> /\ input = <<>>
    /\ IdleSwarm
    /\ IdleStores
    /\ NoTasks

\* spawn_swarm_agent(window, objective), up to its return: the checks, the
\* spawn of the child and the start of the three threads.
SpawnSwarmAgent(objective) ==
    /\ cmd = "swarm"
    /\ result = "none"
    /\ IF Validate(objective) # ""
       THEN /\ result' = Validate(objective)
            /\ UNCHANGED swarmVars
       ELSE \E outcome \in SpawnOutcomes :
               IF outcome = "spawned"
               THEN /\ result' = "ok"
                    /\ childState' = "running"
                    /\ pcF' = [u \in Streams |-> "read"]
                    /\ pcW' = "wait"
                    /\ UNCHANGED <<pipe, written, exitStatus, cur, waitRes>>
               ELSE /\ result' = IF outcome = "no_module"
                                 THEN "AgentSwarm.psm1 not found at: \"AgentSwarm.psm1\""
                                 ELSE "Failed to spawn swarm: program not found"
                    /\ UNCHANGED swarmVars
    /\ UNCHANGED <<concVars, storeVars, cmd, consumer, emitted, decoderVars>>

\* ------------------------------------------ the approval queue: bridge.json

\* A request as the external producer writes it: BridgeRequest, pending.
NewRequest(id) == [id |-> id, message |-> "run " \o id, status |-> "pending"]

\* The queues the producer has written: up to MaxRequests requests. Nothing in
\* this program keeps the producer from reusing an id.
Queues == {[i \in 1..Len(ids) |-> NewRequest(ids[i])] : ids \in SeqsUpTo(QueueIds, MaxRequests)}

\* data.requests.iter_mut().find(|r| r.id == id): the place of the first
\* request with that id, 0 for None.
FindRequest(requests, id) ==
    LET hits == {i \in 1..Len(requests) : requests[i].id = id}
    IN IF hits = {} THEN 0 ELSE CHOOSE i \in hits : \A j \in hits : i <= j

\* A decision that skips the lookup and marks the first request.
SetStatusNoLookup(data, id, status) ==
    IF data.requests = <<>> THEN data
    ELSE [data EXCEPT !.requests[1].status = status]

\* A decision that marks pending requests only.
SetStatusPendingOnly(data, id, status) ==
    LET i == FindRequest(data.requests, id)
    IN IF i = 0 \/ data.requests[i].status # "pending" THEN data
       ELSE [data EXCEPT !.requests[i].status = status]

\* A decision that marks every request with the id, not the first one found.
SetStatusEvery(data, id, status) ==
    [data EXCEPT !.requests =
        [i \in 1..Len(@) |-> IF @[i].id = id THEN [@[i] EXCEPT !.status = status] ELSE @[i]]]

\* The status of the request a decision on id finds, "absent" when none.
StatusOf(data, id) ==
    LET i == FindRequest(data.requests, id)
    IN IF i = 0 THEN "absent" ELSE data.requests[i].status

\* if let Some(req) = .. { req.status = status }
SetStatus(data, id, status) ==
    LET i == FindRequest(data.requests, id)
    IN IF i = 0 THEN data ELSE [data EXCEPT !.requests[i].status = status]

\* The queue file when the UI starts: not there, unreadable, unparseable, or
\* a queue of pending requests with either setting of auto_approve.
BridgeInit ==
    /\ cmd = "bridge"
    /\ consumer = TRUE
    /\ emitted = <<>>
    /\ result = "none"
    /\ body = <<>> /\ input = <<>>
    /\ IdleSwarm
    /\ bridgeFile \in {NoData(k, BridgeDefault) : k \in FileKinds \ {"json"}}
                      \cup {Json([requests |-> q, auto_approve |-> a]) :
                               q \in Queues, a \in BOOLEAN}
    /\ memFile = NoData("absent", MemoryDefault)
    /\ ret = NoCall
    /\ lastSet = [id \in CallIds |-> NoDecision]
    /\ NoTasks

\* get_bridge_state
GetBridgeState ==
    /\ cmd = "bridge"
    /\ ret' = RetOk("get_bridge_state", read_bridge_data)
    /\ UNCHANGED <<concVars, cmd, consumer, emitted, result, decoderVars, swarmVars,
                   bridgeFile, memFile, lastSet>>

\* set_auto_approve(enabled)
SetAutoApprove(enabled) ==
    /\ cmd = "bridge"
    /\ LET data == [read_bridge_data EXCEPT !.auto_approve = enabled]
       IN \E outcome \in SaveOutcomes :
             /\ bridgeFile' = Save(bridgeFile, data, BridgeDefault, outcome)
             /\ ret' = AfterSave("set_auto_approve", data, outcome)
    /\ UNCHANGED <<concVars, cmd, consumer, emitted, result, decoderVars, swarmVars,
                   memFile, lastSet>>

\* What lastSet becomes when a decision on id has been saved with the outcome.
Decided(id, status, outcome) ==
    IF outcome = "ok"
    THEN [lastSet EXCEPT ![id] = [set |-> status, was |-> StatusOf(read_bridge_data, id)]]
    ELSE lastSet

\* approve_request(id)
ApproveRequest(id) ==
    /\ cmd = "bridge"
    /\ LET data == SetStatus(read_bridge_data, id, "approved")
       IN \E outcome \in SaveOutcomes :
             /\ bridgeFile' = Save(bridgeFile, data, BridgeDefault, outcome)
             /\ ret' = AfterSave("approve_request", data, outcome)
             /\ lastSet' = Decided(id, "approved", outcome)
    /\ UNCHANGED <<concVars, cmd, consumer, emitted, result, decoderVars, swarmVars, memFile>>

\* reject_request(id)
RejectRequest(id) ==
    /\ cmd = "bridge"
    /\ LET data == SetStatus(read_bridge_data, id, "rejected")
       IN \E outcome \in SaveOutcomes :
             /\ bridgeFile' = Save(bridgeFile, data, BridgeDefault, outcome)
             /\ ret' = AfterSave("reject_request", data, outcome)
             /\ lastSet' = Decided(id, "rejected", outcome)
    /\ UNCHANGED <<concVars, cmd, consumer, emitted, result, decoderVars, swarmVars, memFile>>

BridgeNext ==
    \/ GetBridgeState
    \/ \E enabled \in BOOLEAN : SetAutoApprove(enabled)
    \/ \E id \in CallIds : ApproveRequest(id)
    \/ \E id \in CallIds : RejectRequest(id)

BridgeSpec == BridgeInit /\ [][BridgeNext]_vars

\* -------------------------------------- the memory log: agent_memory.json

\* Names are sequences of characters, so that to_lowercase is computed.
LowerChar(c) ==
    CASE c = "A" -> "a" [] c = "B" -> "b" [] c = "L" -> "l" [] c = "O" -> "o"
      [] OTHER -> c

\* str::to_lowercase
ToLowercase(name) == [i \in 1..Len(name) |-> LowerChar(name[i])]

\* The agents entries are added for ("" is refused), and the names the log is
\* queried and cleared with.
Agents == {<<>>, <<"B", "o", "b">>, <<"a", "l">>}
AgentNames == {<<"B", "o", "b">>, <<"b", "O", "B">>, <<"A", "l">>}

\* A content is modelled by its length in bytes, which is all the code reads.
MaxContentLen == 10000
ContentLens == {0, MaxContentLen, MaxContentLen + 1}

\* Importances in tenths: below, in and above the range [0.0, 1.0].
Importances == {0 - 3, 10, 12}

\* f32::clamp(0.0, 1.0), in tenths.
Clamp(x) == IF x < 0 THEN 0 ELSE IF x > 10 THEN 10 ELSE x

\* Readings of SystemTime::now() in milliseconds since the epoch; the clock is
\* the system's, and nothing makes two readings differ or increase.
Readings == {1000, 2000, 2500}

\* as_millis and as_secs of a reading.
AsMillis(now) == now
AsSecs(now) == now \div 1000

\* MemoryEntry of add_agent_memory.
MemoryEntry(agent, content, importance, now) ==
    [id |-> "mem_" \o ToString(AsMillis(now)),
     agent |-> agent,
     content |-> content,
     timestamp |-> AsSecs(now),
     importance |-> Clamp(importance)]

\* The comparators of the two sort_by calls: Less when a goes before b.
\*   "recent": b.timestamp.cmp(&a.timestamp)
\*   "ranked": b.importance.partial_cmp(&a.importance).then_with(timestamp)
Less(order, a, b) ==
    IF order = "recent" THEN a.timestamp > b.timestamp
    ELSE \/ a.importance > b.importance
         \/ a.importance = b.importance /\ a.timestamp > b.timestamp

\* slice::sort_by, a stable sort: the head is put into the sorted tail before
\* every element that does not go before it, so equal elements keep their order.
RECURSIVE SortBy(_, _)
SortBy(order, s) ==
    IF s = <<>> THEN <<>>
    ELSE LET rest == SortBy(order, Tail(s))
             x == Head(s)
             RECURSIVE Place(_)
             Place(t) ==
                 IF t = <<>> THEN <<x>>
                 ELSE IF Less(order, Head(t), x) THEN <<Head(t)>> \o Place(Tail(t))
                 ELSE <<x>> \o t
         IN Place(rest)

\* Vec::truncate(n) and into_iter().take(n).collect()
Truncate(s, n) == IF Len(s) > n THEN SubSeq(s, 1, n) ELSE s

\* A cap that truncates without sorting, as the graph's does.
CapMemoriesNoSort(memories) == Truncate(memories, MaxMemories)

\* if store.memories.len() > 1000 { sort_by(timestamp, descending); truncate(1000) }
CapMemories(memories) ==
    IF Len(memories) > MaxMemories
    THEN Truncate(SortBy("recent", memories), MaxMemories)
    ELSE memories

\* filter(|m| m.agent.to_lowercase() == agent_name.to_lowercase())
OfAgent(memories, agent_name) ==
    SelectSeq(memories, LAMBDA m : ToLowercase(m.agent) = ToLowercase(agent_name))

\* A query that leaves the ranking out.
RecallUnranked(memories, agent_name, top_k) == Truncate(OfAgent(memories, agent_name), top_k)

\* The body of get_agent_memories: filter, sort_by, truncate(top_k).
Recall(memories, agent_name, top_k) ==
    Truncate(SortBy("ranked", OfAgent(memories, agent_name)), top_k)

\* The store when the UI starts: no file, or one that loads as the empty store.
EmptyMemFiles == {NoData(k, MemoryDefault) : k \in FileKinds \ {"json"}}

MemoryInit ==
    /\ cmd = "memory"
    /\ consumer = TRUE
    /\ emitted = <<>>
    /\ result = "none"
    /\ body = <<>> /\ input = <<>>
    /\ IdleSwarm
    /\ bridgeFile = NoData("absent", BridgeDefault)
    /\ memFile \in EmptyMemFiles
    /\ ret = NoCall
    /\ lastSet = [id \in CallIds |-> NoDecision]
    /\ NoTasks

\* get_agent_memories(agent_name, top_k)
GetAgentMemories(agent_name, top_k) ==
    /\ cmd = "memory"
    /\ ret' = RetOk("get_agent_memories",
                    Recall(read_memory_store.memories, agent_name, top_k))
    /\ UNCHANGED <<concVars, cmd, consumer, emitted, result, decoderVars, swarmVars,
                   bridgeFile, memFile, lastSet>>

\* add_agent_memory(agent, content, importance), the clock reading now.
AddAgentMemory(agent, content, importance, now) ==
    /\ cmd = "memory"
    /\ IF agent = <<>> \/ content = 0
       THEN /\ ret' = RetErr("add_agent_memory", "Agent and content cannot be empty")
            /\ UNCHANGED memFile
       ELSE IF content > MaxContentLen
       THEN /\ ret' = RetErr("add_agent_memory", "Content too long (max 10000 chars)")
            /\ UNCHANGED memFile
       ELSE LET store == read_memory_store
                entry == MemoryEntry(agent, content, importance, now)
                saved == [store EXCEPT !.memories = CapMemories(Append(@, entry))]
            IN \E outcome \in SaveOutcomes :
                  /\ memFile' = Save(memFile, saved, MemoryDefault, outcome)
                  /\ ret' = AfterSave("add_agent_memory", entry, outcome)
    /\ UNCHANGED <<concVars, cmd, consumer, emitted, result, decoderVars, swarmVars,
                   bridgeFile, lastSet>>

\* clear_agent_memories(agent_name)
ClearAgentMemories(agent_name) ==
    /\ cmd = "memory"
    /\ LET store == read_memory_store
           kept == SelectSeq(store.memories,
                             LAMBDA m : ToLowercase(m.agent) # ToLowercase(agent_name))
           removed == Len(store.memories) - Len(kept)
       IN \E outcome \in SaveOutcomes :
             /\ memFile' = Save(memFile, [store EXCEPT !.memories = kept], MemoryDefault, outcome)
             /\ ret' = AfterSave("clear_agent_memories", removed, outcome)
    /\ UNCHANGED <<concVars, cmd, consumer, emitted, result, decoderVars, swarmVars,
                   bridgeFile, lastSet>>

\* top_k: usize
TopKs == 0..MaxMemories

MemoryNext ==
    \/ \E agent_name \in AgentNames, top_k \in TopKs : GetAgentMemories(agent_name, top_k)
    \/ \E agent \in Agents, content \in ContentLens, importance \in Importances,
          now \in Readings :
             AddAgentMemory(agent, content, importance, now)
    \/ \E agent_name \in AgentNames : ClearAgentMemories(agent_name)

MemorySpec == MemoryInit /\ [][MemoryNext]_vars

\* ---------------------------------- the knowledge graph: agent_memory.json

\* The ids nodes are added with and edges refer to: "" (refused), and one id
\* more than the cap holds.
NodeIds == {""} \cup {"n" \o ToString(i) : i \in 1..(MaxNodes + 1)}
NodeTypes == {"concept"}
Labels == {"", "is"}

\* store.graph.nodes.iter().any(|n| n.id == id)
NodeExists(graph, id) == \E i \in 1..Len(graph.nodes) : graph.nodes[i].id = id

\* A node list without the cap.
CapNodesOff(nodes) == nodes

\* if nodes.len() > 500 { nodes = nodes.into_iter().take(500).collect() }
CapNodes(nodes) == IF Len(nodes) > MaxNodes THEN Truncate(nodes, MaxNodes) ELSE nodes

\* if edges.len() > 1000 { edges = edges.into_iter().take(1000).collect() }
CapEdges(edges) == IF Len(edges) > MaxEdges THEN Truncate(edges, MaxEdges) ELSE edges

GraphInit ==
    /\ cmd = "graph"
    /\ consumer = TRUE
    /\ emitted = <<>>
    /\ result = "none"
    /\ body = <<>> /\ input = <<>>
    /\ IdleSwarm
    /\ bridgeFile = NoData("absent", BridgeDefault)
    /\ memFile \in EmptyMemFiles
    /\ ret = NoCall
    /\ lastSet = [id \in CallIds |-> NoDecision]
    /\ NoTasks

\* get_knowledge_graph
GetKnowledgeGraph ==
    /\ cmd = "graph"
    /\ ret' = RetOk("get_knowledge_graph", read_memory_store.graph)
    /\ UNCHANGED <<concVars, cmd, consumer, emitted, result, decoderVars, swarmVars,
                   bridgeFile, memFile, lastSet>>

\* add_knowledge_node(node_id, node_type, label)
AddKnowledgeNode(node_id, node_type, label) ==
    /\ cmd = "graph"
    /\ LET store == read_memory_store
           node == [id |-> node_id, type |-> node_type, label |-> label]
           saved == [store EXCEPT !.graph.nodes = CapNodes(Append(@, node))]
       IN IF node_id = "" \/ label = ""
          THEN /\ ret' = RetErr("add_knowledge_node", "Node ID and label cannot be empty")
               /\ UNCHANGED memFile
          ELSE IF NodeExists(store.graph, node_id)
          THEN /\ ret' = RetErr("add_knowledge_node", "Node with this ID already exists")
               /\ UNCHANGED memFile
          ELSE \E outcome \in SaveOutcomes :
                  /\ memFile' = Save(memFile, saved, MemoryDefault, outcome)
                  /\ ret' = AfterSave("add_knowledge_node", node, outcome)
    /\ UNCHANGED <<concVars, cmd, consumer, emitted, result, decoderVars, swarmVars,
                   bridgeFile, lastSet>>

\* add_knowledge_edge(source, target, label)
AddKnowledgeEdge(source, target, label) ==
    /\ cmd = "graph"
    /\ LET store == read_memory_store
           edge == [source |-> source, target |-> target, label |-> label]
           saved == [store EXCEPT !.graph.edges = CapEdges(Append(@, edge))]
       IN IF source = "" \/ target = "" \/ label = ""
          THEN /\ ret' = RetErr("add_knowledge_edge", "Source, target, and label cannot be empty")
               /\ UNCHANGED memFile
          ELSE IF ~NodeExists(store.graph, source) \/ ~NodeExists(store.graph, target)
          THEN /\ ret' = RetErr("add_knowledge_edge", "Source or target node does not exist")
               /\ UNCHANGED memFile
          ELSE \E outcome \in SaveOutcomes :
                  /\ memFile' = Save(memFile, saved, MemoryDefault, outcome)
                  /\ ret' = AfterSave("add_knowledge_edge", edge, outcome)
    /\ UNCHANGED <<concVars, cmd, consumer, emitted, result, decoderVars, swarmVars,
                   bridgeFile, lastSet>>

GraphNext ==
    \/ GetKnowledgeGraph
    \/ \E node_id \in NodeIds, node_type \in NodeTypes, label \in Labels :
          AddKnowledgeNode(node_id, node_type, label)
    \/ \E source \in NodeIds, target \in NodeIds, label \in Labels :
          AddKnowledgeEdge(source, target, label)

GraphSpec == GraphInit /\ [][GraphNext]_vars

\* The call of spawn_swarm_agent and what follows it, with the commands on the
\* memory store: the commands that check their arguments.
CheckedSpec ==
    /\ SwarmCallInit \/ MemoryInit \/ GraphInit
    /\ [][\/ \E objective \in Objectives : SpawnSwarmAgent(objective)
          \/ SwarmNext
          \/ MemoryNext
          \/ GraphNext]_vars

\* The commands on the three stores.
StoreSpec ==
    /\ BridgeInit \/ MemoryInit \/ GraphInit
    /\ [][BridgeNext \/ MemoryNext \/ GraphNext]_vars

\* agent_memory.json as an earlier run of the UI left it: a graph of two nodes
\* and an edge with no memories, or a log of one memory with an empty graph.
StoredGraph ==
    [nodes |-> <<[id |-> "n1", type |-> "concept", label |-> "is"],
                 [id |-> "n2", type |-> "concept", label |-> "is"]>>,
     edges |-> <<[source |-> "n1", target |-> "n2", label |-> "is"]>>]
StoredLog == <<MemoryEntry(<<"a", "l">>, MaxContentLen, 10, 1000)>>

\* A session of memory commands on a file that holds a graph.
StoredMemoryInit ==
    /\ cmd = "memory"
    /\ consumer = TRUE
    /\ emitted = <<>>
    /\ result = "none"
    /\ body = <<>> /\ input = <<>>
    /\ IdleSwarm
    /\ bridgeFile = NoData("absent", BridgeDefault)
    /\ memFile = Json([memories |-> <<>>, graph |-> StoredGraph])
    /\ ret = NoCall
    /\ lastSet = [id \in CallIds |-> NoDecision]
    /\ NoTasks

\* A session of graph commands on a file that holds a memory.
StoredGraphInit ==
    /\ cmd = "graph"
    /\ consumer = TRUE
    /\ emitted = <<>>
    /\ result = "none"
    /\ body = <<>> /\ input = <<>>
    /\ IdleSwarm
    /\ bridgeFile = NoData("absent", BridgeDefault)
    /\ memFile = Json([memories |-> StoredLog, graph |-> GraphDefault])
    /\ ret = NoCall
    /\ lastSet = [id \in CallIds |-> NoDecision]
    /\ NoTasks

\* The commands on the three stores, the memory store holding the other
\* part's data from an earlier run. The memories added are valid ones of full
\* importance, and queries ask for the whole log.
FrameSpec ==
    /\ BridgeInit \/ StoredMemoryInit \/ StoredGraphInit
    /\ [][\/ BridgeNext
          \/ \E agent_name \in AgentNames : GetAgentMemories(agent_name, MaxMemories)
          \/ \E agent \in Agents, now \in Readings :
                AddAgentMemory(agent, MaxContentLen, 10, now)
          \/ \E agent_name \in AgentNames : ClearAgentMemories(agent_name)
          \/ GraphNext]_vars

\* ------------------------------------------------ streams at the same time

\* The event name of window.emit: "ollama-event" in prompt_ollama_stream and
\* in prompt_gemini_stream, "swarm-data" in the three threads of
\* spawn_swarm_agent. The name is a literal; no argument of the command and
\* nothing of the session is part of it.
EventName(kind) == IF kind = "swarm" THEN "swarm-data" ELSE "ollama-event"
EventNames == {EventName(kind) : kind \in Streaming}

\* Two commands the UI has invoked and that run at the same time.
SessionIds == {"s1", "s2"}

\* The events a session emits, in its order, none after its done = true: a
\* chat answer of one or two lines, an answer of one fragment or none, an
\* agent that writes a line and succeeds or that writes none and fails.
SessionEvents(kind) ==
    CASE kind = "ollama" ->
           {ChunkEventsA(ChatLine(S("Hi"), Lit("false")) \o <<NL>>
                         \o ChatLine(S(" there"), Lit("true")) \o <<NL>>),
            ChunkEventsA(ChatLine(S(" there"), Lit("true")) \o <<NL>>)}
      [] kind = "gemini" ->
           {ChunkEventsB(Marker \o <<"H", "i", Quote>>) \o <<FinalEvent>>,
            ChunkEventsB(<<BadB>>) \o <<FinalEvent>>}
      [] kind = "swarm" ->
           {<<[chunk |-> LineChunk("stdout", LineTexts[1]), done |-> FALSE],
              [chunk |-> TerminalMsg([ok |-> TRUE, status |-> "0", err |-> ""]),
               done |-> TRUE]>>,
            <<[chunk |-> TerminalMsg([ok |-> TRUE, status |-> "1", err |-> ""]),
               done |-> TRUE]>>}

StreamsInit ==
    /\ cmd = "streams"
    /\ consumer = TRUE
    /\ emitted = <<>>
    /\ result = "none"
    /\ body = <<>> /\ input = <<>>
    /\ IdleSwarm
    /\ IdleStores
    /\ sessions \in [SessionIds ->
                       UNION {{[kind |-> kind, todo |-> evs] : evs \in SessionEvents(kind)} :
                                 kind \in Streaming}]
    /\ channels = [name \in EventNames |-> <<>>]
    /\ held = <<>>

\* Session s makes its next call of window.emit: the event is delivered to
\* the window's listeners on the event name.
SessionEmit(s) ==
    /\ cmd = "streams"
    /\ sessions[s].todo # <<>>
    /\ LET ev == Head(sessions[s].todo)
       IN channels' = [channels EXCEPT ![EventName(sessions[s].kind)] =
                          Append(@, [chunk |-> ev.chunk, done |-> ev.done, from |-> s])]
    /\ sessions' = [sessions EXCEPT ![s].todo = Tail(@)]
    /\ UNCHANGED <<held, storeVars, cmd, consumer, emitted, result, decoderVars, swarmVars>>

StreamsSpec == StreamsInit /\ [][\E s \in SessionIds : SessionEmit(s)]_vars

\* ---------------------------------- mutators of agent_memory.json at the same time

\* A command on the memory log and a command on the knowledge graph, invoked
\* together. Nothing in the commands locks the file or checks that it is as
\* loaded when it is written.
Procs == {"log", "graph"}

\* A command not yet started; one that has loaded the store and changed it
\* in memory (store is what it will write and val what it will return); one
\* that has returned ret.
NotStarted == [pc |-> "idle", op |-> "", arg |-> <<>>, store |-> MemoryDefault,
               val |-> <<>>, ret |-> NoCall]
Loading(op, arg, store, val) ==
    [pc |-> "loaded", op |-> op, arg |-> arg, store |-> store, val |-> <<val>>,
     ret |-> NoCall]
Returned(h, ret_) == [h EXCEPT !.pc = "done", !.ret = ret_]

\* agent_memory.json when the two commands are invoked: absent, or a log of
\* one memory and a graph of one node, both below their caps.
MutatorsInit ==
    /\ cmd = "mutators"
    /\ consumer = TRUE
    /\ emitted = <<>>
    /\ result = "none"
    /\ body = <<>> /\ input = <<>>
    /\ IdleSwarm
    /\ bridgeFile = NoData("absent", BridgeDefault)
    /\ memFile \in {NoData("absent", MemoryDefault),
                     Json([memories |-> StoredLog,
                           graph |-> [nodes |-> <<StoredGraph.nodes[1]>>, edges |-> <<>>]])}
    /\ ret = NoCall
    /\ lastSet = [id \in CallIds |-> NoDecision]
    /\ sessions = <<>>
    /\ channels = <<>>
    /\ held = [p \in Procs |-> NotStarted]

\* add_agent_memory up to its write: validation, read_memory_store, push, cap.
AddAgentMemoryLoad(agent, content, importance, now) ==
    /\ cmd = "mutators"
    /\ held["log"].pc = "idle"
    /\ held' = [held EXCEPT !["log"] =
          IF agent = <<>> \/ content = 0
          THEN Returned(@, RetErr("add_agent_memory", "Agent and content cannot be empty"))
          ELSE IF content > MaxContentLen
          THEN Returned(@, RetErr("add_agent_memory", "Content too long (max 10000 chars)"))
          ELSE LET store == read_memory_store
                   entry == MemoryEntry(agent, content, importance, now)
               IN Loading("add_agent_memory", agent,
                          [store EXCEPT !.memories = CapMemories(Append(@, entry))], entry)]
    /\ UNCHANGED <<sessions, channels, storeVars, cmd, consumer, emitted, result,
                   decoderVars, swarmVars>>

\* clear_agent_memories up to its write: read_memory_store, retain.
ClearAgentMemoriesLoad(agent_name) ==
    /\ cmd = "mutators"
    /\ held["log"].pc = "idle"
    /\ LET store == read_memory_store
           kept == SelectSeq(store.memories,
                             LAMBDA m : ToLowercase(m.agent) # ToLowercase(agent_name))
       IN held' = [held EXCEPT !["log"] =
             Loading("clear_agent_memories", agent_name,
                     [store EXCEPT !.memories = kept], Len(store.memories) - Len(kept))]
    /\ UNCHANGED <<sessions, channels, storeVars, cmd, consumer, emitted, result,
                   decoderVars, swarmVars>>

\* add_knowledge_node up to its write: validation, read_memory_store, the
\* check for the id, push, cap.
AddKnowledgeNodeLoad(node_id, node_type, label) ==
    /\ cmd = "mutators"
    /\ held["graph"].pc = "idle"
    /\ LET store == read_memory_store
           node == [id |-> node_id, type |-> node_type, label |-> label]
       IN held' = [held EXCEPT !["graph"] =
             IF node_id = "" \/ label = ""
             THEN Returned(@, RetErr("add_knowledge_node", "Node ID and label cannot be empty"))
             ELSE IF NodeExists(store.graph, node_id)
             THEN Returned(@, RetErr("add_knowledge_node", "Node with this ID already exists"))
             ELSE Loading("add_knowledge_node", node_id,
                          [store EXCEPT !.graph.nodes = CapNodes(Append(@, node))], node)]
    /\ UNCHANGED <<sessions, channels, storeVars, cmd, consumer, emitted, result,
                   decoderVars, swarmVars>>

\* add_knowledge_edge up to its write: validation, read_memory_store, the
\* check for the two nodes, push, cap.
AddKnowledgeEdgeLoad(source, target, label) ==
    /\ cmd = "mutators"
    /\ held["graph"].pc = "idle"
    /\ LET store == read_memory_store
           edge == [source |-> source, target |-> target, label |-> label]
       IN held' = [held EXCEPT !["graph"] =
             IF source = "" \/ target = "" \/ label = ""
             THEN Returned(@, RetErr("add_knowledge_edge",
                                     "Source, target, and label cannot be empty"))
             ELSE IF ~NodeExists(store.graph, source) \/ ~NodeExists(store.graph, target)
             THEN Returned(@, RetErr("add_knowledge_edge",
                                     "Source or target node does not exist"))
             ELSE Loading("add_knowledge_edge", <<source, target>>,
                          [store EXCEPT !.graph.edges = CapEdges(Append(@, edge))], edge)]
    /\ UNCHANGED <<sessions, channels, storeVars, cmd, consumer, emitted, result,
                   decoderVars, swarmVars>>

\* The rest of each of the four commands: write_memory_store(&store)?; Ok(val)
WriteMemoryStore(p) ==
    /\ cmd = "mutators"
    /\ held[p].pc = "loaded"
    /\ \E outcome \in SaveOutcomes :
          /\ memFile' = Save(memFile, held[p].store, MemoryDefault, outcome)
          /\ held' = [held EXCEPT ![p] =
                Returned(@, AfterSave(@.op, @.val[1], outcome))]
    /\ UNCHANGED <<sessions, channels, bridgeFile, ret, lastSet, cmd, consumer, emitted,
                   result, decoderVars, swarmVars>>

MutatorsNext ==
    \/ \E agent \in Agents, now \in Readings :
          AddAgentMemoryLoad(agent, MaxContentLen, 10, now)
    \/ \E agent_name \in AgentNames : ClearAgentMemoriesLoad(agent_name)
    \/ \E node_id \in NodeIds, node_type \in NodeTypes, label \in Labels :
          AddKnowledgeNodeLoad(node_id, node_type, label)
    \/ \E source \in NodeIds, target \in NodeIds, label \in Labels :
          AddKnowledgeEdgeLoad(source, target, label)
    \/ \E p \in Procs : WriteMemoryStore(p)

MutatorsSpec == MutatorsInit /\ [][MutatorsNext]_vars

\* ------------------------------------------------------------ all commands

\* Both chat decoders.
ChatSpec == (OllamaInit \/ GeminiInit) /\ [][OllamaNext \/ GeminiNext]_vars

Init == OllamaInit \/ GeminiInit \/ SwarmInit

Next == OllamaNext \/ GeminiNext \/ SwarmNext

Spec == Init /\ [][Next]_vars

\* ------------------------------------------------------------------ claims

\* The emit calls unit u has made, in order.
EventsBy(u) == SelectSeq(emitted, LAMBDA e : e.by = u)

\* The chunk and done of every emit call so far, in order.
Payloads == [i \in 1..Len(emitted) |-> [chunk |-> emitted[i].chunk, done |-> emitted[i].done]]

\* The lines of stream u that its forwarder has taken from the pipe.
Taken(u) == SubSeq(written[u], 1, Len(written[u]) - Len(pipe[u]))

\* The chunk a line of stream u is to be forwarded as.
Forwarded(u, text) ==
    IF u = "stderr" THEN "[ERR] " \o text \o "\n" ELSE text \o "\n"

\* The chunks of the lines ls of stream u, one per line, in order.
ForwardedAll(u, ls) == [i \in 1..Len(ls) |-> Forwarded(u, ls[i].text)]

\* The chunks unit u has emitted, in order.
ChunksBy(u) == LET ev == EventsBy(u) IN [i \in 1..Len(ev) |-> ev[i].chunk]

\* The lines of a forwarder whose event is out: those taken, but for the one
\* it holds between its read and its emit.
Due(u, ls) == IF pcF[u] = "emit" THEN SubSeq(ls, 1, Len(ls) - 1) ELSE ls

\* C1: in spawn_swarm_agent the done=true event is the last event emitted on
\* the channel, no line event follows it. Stated for the runs in which wait()
\* succeeded and every emit call was delivered.
C1_TerminalEventIsLast ==
    (cmd = "swarm" /\ waitRes.ok /\ \A i \in 1..Len(emitted) : emitted[i].ok)
        => \A i \in 1..Len(emitted) : emitted[i].done => i = Len(emitted)

\* The chunk the terminal event is to carry for what wait() returned.
TerminalChunk ==
    IF ~waitRes.ok THEN "\n[SWARM ERROR: ECHILD]\n"
    ELSE IF waitRes.status = "0" THEN "\n[SWARM COMPLETED SUCCESSFULLY]\n"
    ELSE IF waitRes.status = "1" THEN "\n[SWARM EXITED WITH CODE: Some(1)]\n"
    ELSE "\n[SWARM EXITED WITH CODE: None]\n"

\* At most one done=true emit call, made by the exit-wait unit with the chunk
\* of what wait() returned, which is the child's exit status when it is Ok.
C2_AtMostOneTerminal ==
    cmd = "swarm" =>
        /\ \A i, j \in 1..Len(emitted) : emitted[i].done /\ emitted[j].done => i = j
        /\ \A i \in 1..Len(emitted) :
              /\ emitted[i].by \in Streams => ~emitted[i].done
              /\ emitted[i].done => emitted[i].by = "wait" /\ emitted[i].chunk = TerminalChunk
        /\ pcW = "done" => \E i \in 1..Len(emitted) : emitted[i].done
        /\ waitRes.ok => childState = "exited" /\ waitRes.status = exitStatus

\* C2: for a spawned child that exits, exactly one done=true event is
\* emitted: one is eventually emitted, never a second, the forwarders emit
\* done=false only, and its chunk tells success, the exit code or the wait
\* failure.
C2_ExactlyOneTerminalEvent ==
    /\ []C2_AtMostOneTerminal
    /\ (cmd = "swarm" /\ childState = "exited")
          ~> (\E i \in 1..Len(emitted) : emitted[i].done)

\* A child that exited with code 1 after a line was forwarded, the terminal
\* event emitted.
C2_Witness ==
    /\ cmd = "swarm" /\ pcW = "done"
    /\ waitRes.ok /\ exitStatus = "1"
    /\ Len(emitted) = 2 /\ emitted[1].by = "stdout" /\ emitted[2].done

\* C3 as stated: the events of one stream are its lines, one event per line
\* taken from the pipe, in order, chunk = line + newline behind the stream's
\* prefix, done=false.
C3_EveryLineForwarded ==
    cmd = "swarm" =>
        \A u \in Streams :
            /\ ChunksBy(u) = ForwardedAll(u, Due(u, Taken(u)))
            /\ \A i \in 1..Len(emitted) : emitted[i].by = u => ~emitted[i].done

\* C3 amended: the events of one stream are its lines that are valid UTF-8,
\* one event per such line, in order, chunk = line + newline behind the
\* stream's prefix ("[ERR] " for stderr, none for stdout), done=false; a line
\* that is not valid UTF-8 is dropped.
C3_DecodableLinesForwarded ==
    cmd = "swarm" =>
        \A u \in Streams :
            /\ ChunksBy(u) =
                  ForwardedAll(u, Due(u, SelectSeq(Taken(u), LAMBDA l : l.ok)))
            /\ \A i \in 1..Len(emitted) : emitted[i].by = u => ~emitted[i].done

\* Two different stdout lines forwarded in their order, a stderr line between.
C3_Witness ==
    /\ cmd = "swarm" /\ Len(emitted) = 3
    /\ emitted[1].by = "stdout" /\ emitted[2].by = "stderr" /\ emitted[3].by = "stdout"
    /\ emitted[1].chunk = "a\n" /\ emitted[2].chunk = "[ERR] b\n"
    /\ emitted[3].chunk = "c\n"

\* C4: Decoder A emits, for every way the body is cut into chunks, the events
\* it emits when the body comes as one chunk. Stated for bodies that are
\* valid UTF-8.
C4_ChunkingDoesNotMatter ==
    (cmd = "ollama" /\ result = "ok" /\ Utf8OkA(input))
        => Payloads = ChunkEventsA(input)

\* The events the lines of text stand for, line by line.
LinesImage(text) ==
    LET ls == SplitLines(text) IN Flatten([i \in 1..Len(ls) |-> LineEvents(ls[i])])

\* C5: once the byte source has ended, Decoder A has returned without error
\* and has emitted exactly the events of the input's lines that parse with a
\* string message.content, in order, and nothing else.
C5_ImageOfInputLines ==
    (cmd = "ollama" /\ body = <<>> /\ result # "none" /\ result # "err_read"
       /\ \A i \in 1..Len(emitted) : emitted[i].ok)
        => result = "ok" /\ Payloads = LinesImage(input)

\* C6: when Decoder B's byte source ends without a read or emit error, the
\* last event is {chunk: "", done: true}, it is the only done=true event, and
\* no done=true event is emitted before the source has ended.
C6_OneFinalEvent ==
    cmd = "gemini" =>
        /\ result = "ok" =>
              /\ Len(emitted) >= 1
              /\ emitted[Len(emitted)].chunk = "" /\ emitted[Len(emitted)].done
              /\ emitted[Len(emitted)].ok
        /\ \A i \in 1..Len(emitted) :
              emitted[i].done => i = Len(emitted) /\ body = <<>> /\ result # "none"

\* A text event, then the final event, the command returned Ok.
C6_Witness ==
    /\ cmd = "gemini" /\ result = "ok"
    /\ Len(emitted) = 2 /\ emitted[1].chunk = "Hi" /\ ~emitted[1].done

\* The first quote of rest that no backslash precedes, 0 when there is none.
ClosingQuote(rest) ==
    LET hits == {i \in 1..Len(rest) :
                    rest[i] = Quote /\ (i = 1 \/ rest[i - 1] # "\\")}
    IN IF hits = {} THEN 0 ELSE CHOOSE i \in hits : \A j \in hits : i <= j

\* What follows the first marker of chunk.
AfterMarker(chunk) == SubSeq(chunk, Find(chunk, Marker) + Len(Marker), Len(chunk))

\* The chunk the byte source delivered in the step.
Delivered == SubSeq(body, 1, Len(body) - Len(body'))

\* C7: for a chunk holding the marker and the value's closing quote, the
\* emitted chunk is the text between the first marker and the next unescaped
\* quote, \n replaced by a newline and \" by a quote.
C7_ValueUpToUnescapedQuote ==
    [][(cmd = "gemini" /\ body' # body /\ Utf8OkB(Delivered) /\ consumer'
          /\ Find(Delivered, Marker) # 0
          /\ ClosingQuote(AfterMarker(Delivered)) # 0)
        => LET rest == AfterMarker(Delivered)
               value == SubSeq(rest, 1, ClosingQuote(rest) - 1)
           IN emitted' = Append(emitted,
                  [chunk |-> Str(Unescape(value)), done |-> FALSE,
                   by |-> "decoder", ok |-> TRUE])]_vars

\* C8: each chunk yields at most one event, decided by the chunk alone: one
\* when the first marker and the closing quote of its value are both in the
\* chunk, none otherwise (a pair cut by a chunk boundary yields no event).
C8_EventOnlyForWholePair ==
    [][(cmd = "gemini" /\ body' # body)
        => /\ Len(emitted') <= Len(emitted) + 1
           /\ Len(emitted') = Len(emitted) + 1
                 <=> /\ Utf8OkB(Delivered)
                     /\ Find(Delivered, Marker) # 0
                     /\ ClosingQuote(AfterMarker(Delivered)) # 0]_vars

\* C9: a failed read of the next chunk ends the command with that one error:
\* the failing step emits nothing (Decoder B no final event either) and
\* retracts nothing, and afterwards nothing is emitted, nothing more is read
\* and the result stays.
C9_ReadFailureAborts ==
    [][(result' = "err_read" \/ result = "err_read")
        => /\ emitted' = emitted
           /\ body' = body
           /\ result = "err_read" => result' = "err_read"]_vars

\* A read failed after an event was emitted, with bytes still to come.
C9_Witness ==
    /\ cmd = "gemini" /\ result = "err_read"
    /\ Len(emitted) = 1 /\ emitted[1].ok /\ body # <<>>

\* C10 as stated: no command returns an error because an emit call failed.
C10_EmitFailureNeverReturned == result # "err_emit"

\* C10 amended: the three units of spawn_swarm_agent swallow a failed emit:
\* the command has returned Ok, a forwarder ends only at the end of its
\* stream having made an emit call for every decodable line, and the exit-wait
\* unit makes its call. Decoder A and Decoder B do not: the failed emit is
\* the last call they make, and the command returns its error.
C10_EmitFailureSwallowedBySwarmOnly ==
    /\ cmd = "swarm" =>
          /\ result = "ok"
          /\ \A u \in Streams :
                pcF[u] = "done" =>
                    /\ pipe[u] = <<>> /\ childState = "exited"
                    /\ Len(EventsBy(u)) = Len(SelectSeq(written[u], LAMBDA l : l.ok))
          /\ pcW = "done" => Len(EventsBy("wait")) = 1
    /\ cmd \in {"ollama", "gemini"} =>
          /\ \A i \in 1..Len(emitted) :
                ~emitted[i].ok => i = Len(emitted) /\ result = "err_emit"
          /\ result = "err_emit" => emitted # <<>> /\ ~emitted[Len(emitted)].ok

\* Decoder A delivered one event, its next emit failed, and it returned the
\* error with the rest of the body unread.
C10_Witness ==
    /\ cmd = "ollama" /\ result = "err_emit"
    /\ Len(emitted) = 2 /\ emitted[1].ok /\ ~emitted[2].ok
    /\ body # <<>>


\* ---- the approval queue

\* The queue a load returns.
Requests == read_bridge_data.requests

\* No two requests of the queue have the same id.
UniqueIds(requests) ==
    \A i, j \in 1..Len(requests) : requests[i].id = requests[j].id => i = j

\* The step is an approve_request or reject_request of id.
DecisionStep(id) == ApproveRequest(id) \/ RejectRequest(id)

\* C12: on a queue with unique ids every request has the status set by the
\* last approve_request or reject_request that named its id and returned Ok,
\* and "pending" when there was none; a call with an id that is not in the
\* queue leaves the queue as it was (a call whose save fails after truncating
\* the file is C18's).
C12_LastCallWins ==
    /\ [](UniqueIds(Requests) =>
            \A i \in 1..Len(Requests) :
               Requests[i].status =
                  IF lastSet[Requests[i].id].set = "none" THEN "pending"
                  ELSE lastSet[Requests[i].id].set)
    /\ [][\A id \in CallIds :
            /\ DecisionStep(id) /\ FindRequest(Requests, id) = 0
            /\ ret'.ok \/ bridgeFile' = bridgeFile
            => Requests' = Requests]_vars

\* Both requests of a queue decided differently: r1 approved and then
\* rejected, r2 never named, and a call with the unknown id r9 made.
C12_Witness ==
    /\ Len(Requests) = 2 /\ UniqueIds(Requests)
    /\ \E i \in 1..2 : Requests[i].id = "r1" /\ Requests[i].status = "rejected"
    /\ \E i \in 1..2 : Requests[i].id = "r2" /\ Requests[i].status = "pending"
    /\ lastSet["r1"] = [set |-> "rejected", was |-> "approved"]
    /\ lastSet["r2"] = NoDecision
    /\ lastSet["r9"].set = "approved"

\* C13 as stated: a status changes only from pending; no step changes the
\* status of a request that is approved or rejected.
C13_OnlyFromPending ==
    [][\A i \in 1..Len(Requests) :
          i <= Len(Requests') /\ Requests'[i].status # Requests[i].status
             => Requests[i].status = "pending"]_vars

\* C13: approve_request and reject_request set the status of the request they
\* name whatever it was, so a decided request can be decided again; a status
\* changes only to approved or rejected, never back to pending.
C13_DecisionOverwrites ==
    [][/\ \A id \in CallIds :
             LET i == FindRequest(Requests, id)
             IN /\ ApproveRequest(id) /\ ret'.ok /\ i # 0 => Requests'[i].status = "approved"
                /\ RejectRequest(id) /\ ret'.ok /\ i # 0 => Requests'[i].status = "rejected"
       /\ \A i \in 1..Len(Requests) :
             i <= Len(Requests') /\ Requests'[i].status # Requests[i].status
                => Requests'[i].status \in {"approved", "rejected"}]_vars

\* A request that was approved is now rejected.
C13_Witness ==
    /\ lastSet["r2"] = [set |-> "rejected", was |-> "approved"]
    /\ \E i \in 1..Len(Requests) : Requests[i].id = "r2" /\ Requests[i].status = "rejected"
    /\ ret.op = "reject_request" /\ ret.ok

\* ---- the memory log

\* The memory log a load returns.
Memories == read_memory_store.memories

\* How often x occurs in s, and for two sequences to hold the same elements
\* as often (entries can be equal in every field).
Count(s, x) == Cardinality({i \in 1..Len(s) : s[i] = x})
Elems(s) == {s[i] : i \in 1..Len(s)}
SameBag(s, t) == \A x \in Elems(s) \cup Elems(t) : Count(s, x) = Count(t, x)

\* s without its j-th element.
Without(s, j) == SubSeq(s, 1, j - 1) \o SubSeq(s, j + 1, Len(s))

\* kept holds all of pushed but one entry, and none it holds is older than
\* the one left out.
MostRecentOf(kept, pushed) ==
    \E j \in 1..Len(pushed) :
       /\ SameBag(kept, Without(pushed, j))
       /\ \A i \in 1..Len(kept) : kept[i].timestamp >= pushed[j].timestamp

\* C14: the memory log never holds more than the cap; an add_agent_memory that
\* returns Ok(entry) on a log at the cap persists exactly the cap, the most
\* recent by timestamp of the entries it had and the new one.
C14_NewestKept ==
    /\ [](Len(Memories) <= MaxMemories)
    /\ [][/\ ret'.op = "add_agent_memory" /\ ret'.ok
          /\ Len(Memories) = MaxMemories
          => /\ Len(Memories') = MaxMemories
             /\ MostRecentOf(Memories', Append(Memories, ret'.val[1]))]_vars

\* An insertion into a full log of newer entries: the entry returned is the
\* oldest and is not in the log.
C14_Witness ==
    /\ ret.op = "add_agent_memory" /\ ret.ok
    /\ Len(Memories) = MaxMemories
    /\ ret.val[1] \notin Elems(Memories)
    /\ \A i \in 1..Len(Memories) : Memories[i].timestamp > ret.val[1].timestamp

\* The two names are equal ignoring case.
EqualIgnoringCase(a, b) == ToLowercase(a) = ToLowercase(b)

\* Entry a ranks strictly above entry b: more important, or as important and
\* more recent.
RanksAbove(a, b) ==
    \/ a.importance > b.importance
    \/ a.importance = b.importance /\ a.timestamp > b.timestamp

\* out is what the claim says a query for agent_name and top_k returns from
\* the log: entries of the log for that agent only, as many as there are up
\* to top_k, in rank order, none left out that ranks above one returned.
IsRanking(out, log, agent_name, top_k) ==
    LET matches == SelectSeq(log, LAMBDA m : EqualIgnoringCase(m.agent, agent_name))
    IN /\ \A i \in 1..Len(out) : EqualIgnoringCase(out[i].agent, agent_name)
       /\ \A x \in Elems(out) : Count(out, x) <= Count(matches, x)
       /\ Len(out) = IF Len(matches) < top_k THEN Len(matches) ELSE top_k
       /\ \A i, j \in 1..Len(out) : i < j => ~RanksAbove(out[j], out[i])
       /\ \A x \in Elems(matches) :
             Count(out, x) < Count(matches, x)
                => \A i \in 1..Len(out) : ~RanksAbove(x, out[i])

\* C20: get_agent_memories(agent_name, top_k) returns the entries of that
\* agent, compared ignoring case, by importance and then timestamp descending,
\* cut to top_k, and leaves the store as it was.
C20_RankedRecall ==
    [][ret'.op = "get_agent_memories"
         => /\ ret'.ok
            /\ memFile' = memFile
            /\ \A agent_name \in AgentNames, top_k \in TopKs :
                  GetAgentMemories(agent_name, top_k)
                     => IsRanking(ret'.val[1], Memories, agent_name, top_k)]_vars

\* A query on a log of two entries of one agent, the second one the more
\* important, that returned one entry: the second.
C20_Witness ==
    /\ ret.op = "get_agent_memories"
    /\ Len(Memories) = 2
    /\ Memories[1].agent = <<"B", "o", "b">> /\ Memories[2].agent = <<"B", "o", "b">>
    /\ Memories[2].importance > Memories[1].importance
    /\ ret.val[1] = <<Memories[2]>>

\* ---- the knowledge graph

\* The nodes and the edges a load returns.
Nodes == read_memory_store.graph.nodes
Edges == read_memory_store.graph.edges

\* The step is an add_knowledge_node that returned Ok on a graph at the cap.
InsertAtNodeCap ==
    /\ ret'.op = "add_knowledge_node" /\ ret'.ok
    /\ Len(Nodes) = MaxNodes

\* The edge has an end that is the id of none of the nodes.
Orphan(edge, nodes) ==
    \/ \A i \in 1..Len(nodes) : nodes[i].id # edge.source
    \/ \A i \in 1..Len(nodes) : nodes[i].id # edge.target

\* C15 as stated: an add_knowledge_node that returns success on a graph at the
\* cap leaves the cap's number of nodes stored, the new node among them.
C15_NewNodeStored ==
    [][InsertAtNodeCap
         => /\ Len(Nodes') = MaxNodes
            /\ ret'.val[1] \in Elems(Nodes')]_vars

C17_GraphBounded ==
    /\ Len(Nodes) <= MaxNodes
    /\ \A i, j \in 1..Len(Nodes) : Nodes[i].id = Nodes[j].id => i = j
    /\ Len(Edges) <= MaxEdges

\* Nodes and edges at their caps, after an add_knowledge_node that returned
\* Ok for a node the cap left out.
C17_Witness ==
    /\ Len(Nodes) = MaxNodes /\ Len(Edges) = MaxEdges
    /\ ret.op = "add_knowledge_node" /\ ret.ok
    /\ ret.val[1] \notin Elems(Nodes)

\* ---- saving and loading

Mutators == {"approve_request", "reject_request", "set_auto_approve",
             "add_agent_memory", "add_knowledge_node", "add_knowledge_edge",
             "clear_agent_memories"}
Readers == {"get_bridge_state", "get_agent_memories", "get_knowledge_graph"}

\* The step is a mutator's whose save failed.
SaveFailed ==
    /\ ret'.op \in Mutators
    /\ ~ret'.ok
    /\ ret'.err \in {"Permission denied (os error 13)",
                     "No space left on device (os error 28)"}

\* What a load of the two stores returns.
Loaded == <<read_bridge_data, read_memory_store>>

\* C18 as stated: a mutator whose save fails reports the error, still returns
\* the result of the mutation, and a later load observes the state from
\* before the mutation.
C18_FailedSaveReturnsResult ==
    [][SaveFailed
         => /\ ret'.err # ""
            /\ ret'.val # <<>>
            /\ Loaded' = Loaded]_vars

\* C18: a mutator whose save fails returns the error and nothing else; a
\* later load observes the state from before the mutation when the file was
\* not touched, and the default empty value when the write failed after the
\* file was truncated.
C18_FailedSaveReturnsError ==
    [][SaveFailed
         => /\ ret'.err # ""
            /\ ret'.val = <<>>
            /\ \/ bridgeFile' = bridgeFile /\ memFile' = memFile
               \/ /\ Loaded' \in {<<[requests |-> <<>>, auto_approve |-> TRUE], Loaded[2]>>,
                                  <<Loaded[1], [memories |-> <<>>,
                                                graph |-> [nodes |-> <<>>, edges |-> <<>>]]>>}
                  /\ "corrupt" \in {bridgeFile'.kind, memFile'.kind}]_vars

\* An add_agent_memory on a stored log has failed to save and the log is as
\* it was stored.
C18_Witness ==
    /\ ret.op = "add_agent_memory" /\ ~ret.ok
    /\ ret.err = "Permission denied (os error 13)"
    /\ memFile.kind = "json" /\ Len(Memories) = 1

\* The commands on the queue; the others are on the memory store.
OnBridge == {"get_bridge_state", "approve_request", "reject_request", "set_auto_approve"}

\* The file a command of that name loads, and that file after the step.
FileOf(op) == IF op \in OnBridge THEN bridgeFile ELSE memFile
FileAfter(op) == IF op \in OnBridge THEN bridgeFile' ELSE memFile'

\* C19: on a store file that is absent, unreadable or unparseable the read
\* commands return Ok with empty content (auto_approve on, for the queue),
\* and a mutator that returns Ok has persisted its mutation of the empty
\* value.
C19_LoadNeverFails ==
    [][ret'.op # "" /\ FileOf(ret'.op).kind # "json"
         => /\ ret'.op \in Readers => ret'.ok
            /\ ret'.op = "get_bridge_state"
                  => ret'.val[1] = [requests |-> <<>>, auto_approve |-> TRUE]
            /\ ret'.op = "get_agent_memories" => ret'.val[1] = <<>>
            /\ ret'.op = "get_knowledge_graph"
                  => ret'.val[1] = [nodes |-> <<>>, edges |-> <<>>]
            /\ ret'.op \in Mutators /\ ret'.ok
                  => /\ FileAfter(ret'.op).kind = "json"
                     /\ ret'.op \in {"approve_request", "reject_request"}
                           => Requests' = <<>> /\ read_bridge_data'.auto_approve
                     /\ ret'.op = "set_auto_approve"
                           => Requests' = <<>> /\ read_bridge_data' = ret'.val[1]
                     /\ ret'.op = "add_agent_memory"
                           => Memories' = ret'.val /\ Nodes' = <<>> /\ Edges' = <<>>
                     /\ ret'.op = "clear_agent_memories"
                           => /\ ret'.val = <<0>>
                              /\ Memories' = <<>> /\ Nodes' = <<>> /\ Edges' = <<>>
                     /\ ret'.op = "add_knowledge_node"
                           => Memories' = <<>> /\ Nodes' = ret'.val /\ Edges' = <<>>
                     /\ ret'.op # "add_knowledge_edge"]_vars

\* get_bridge_state has returned the default on a queue file that does not parse.
C19_Witness ==
    /\ bridgeFile.kind = "corrupt"
    /\ ret.op = "get_bridge_state" /\ ret.ok
    /\ ret.val[1] = [requests |-> <<>>, auto_approve |-> TRUE]

\* ---- arguments that are refused

\* The objective has one of the nine characters or more than 1000 bytes.
BadObjective(objective) ==
    \/ \E i \in 1..Len(objective.text) :
          objective.text[i] \in {Grave, "$", "|", "&", ";", ">", "<", "\n", "\r"}
    \/ Len(objective.text) + objective.fill > 1000

\* The command has returned an error and has neither started a child or a
\* thread nor emitted an event.
NothingSpawned ==
    /\ result \notin {"none", "ok"}
    /\ childState = "none"
    /\ pcW = "idle" /\ \A u \in Streams : pcF[u] = "idle"
    /\ emitted = <<>>

\* The step returns Ok or changes the store file.
HasEffect == ret'.ok \/ memFile' # memFile

\* The calls the three store commands are to refuse: an add_agent_memory with
\* an empty agent, an empty content or a content over 10000, an
\* add_knowledge_node with the id of a stored node, an add_knowledge_edge with
\* an end that is not the id of a stored node. No such call, made in this
\* state, returns Ok or changes the store file.
StoreCallsRefused ==
    /\ \A agent \in Agents, content \in ContentLens, importance \in Importances,
          now \in Readings :
             agent = <<>> \/ content = 0 \/ content > 10000
                => ~ENABLED (AddAgentMemory(agent, content, importance, now) /\ HasEffect)
    /\ \A node_id \in NodeIds, node_type \in NodeTypes, label \in Labels :
          (\E i \in 1..Len(Nodes) : Nodes[i].id = node_id)
             => ~ENABLED (AddKnowledgeNode(node_id, node_type, label) /\ HasEffect)
    /\ \A source \in NodeIds, target \in NodeIds, label \in Labels :
          \/ \A i \in 1..Len(Nodes) : Nodes[i].id # source
          \/ \A i \in 1..Len(Nodes) : Nodes[i].id # target
          => ~ENABLED (AddKnowledgeEdge(source, target, label) /\ HasEffect)

\* No call of spawn_swarm_agent with a bad objective, made in this state,
\* ends otherwise than with an error and nothing spawned.
BadObjectivesRefused ==
    \A objective \in Objectives :
       BadObjective(objective)
          => ~ENABLED (SpawnSwarmAgent(objective) /\ ~NothingSpawned')

\* C11: a call that fails validation returns an error and has no effect.
\* spawn_swarm_agent with a dangerous character or more than 1000 bytes
\* returns an error, spawns nothing and no event is emitted then or later;
\* the three store commands, on the arguments they refuse, return an error
\* and leave the store file as it was.
C11_RefusedWithoutEffect ==
    /\ []((result = "none" => BadObjectivesRefused)
          /\ (cmd \in {"memory", "graph"} => StoreCallsRefused))
    /\ [][NothingSpawned => NothingSpawned']_vars

\* spawn_swarm_agent has refused an objective with a dollar sign.
C11_Witness ==
    /\ cmd = "swarm"
    /\ result = "SECURITY: Objective contains dangerous character '$'. Blocked for safety."
    /\ NothingSpawned


\* ---- ids of the memory log

\* C21: the ids of the entries in the memory log are pairwise distinct, also
\* for two insertions made at the same clock reading.
C21_IdsDistinct ==
    \A i, j \in 1..Len(Memories) : i # j => Memories[i].id # Memories[j].id

\* ---- what a command leaves alone

\* The step's save failed after it had truncated the file.
Truncated == ret'.err = "No space left on device (os error 28)"

\* The entries of the log that are another agent's.
OfOthers(memories, agent_name) ==
    SelectSeq(memories, LAMBDA m : ~EqualIgnoringCase(m.agent, agent_name))

\* The places of the queue whose status the step changes.
StatusChanged == {i \in 1..Len(Requests) : Requests'[i].status # Requests[i].status}

\* The step leaves alone what its command does not name.
Frame ==
    /\ ret'.op \in OnBridge => memFile' = memFile
    /\ ret'.op \notin OnBridge => bridgeFile' = bridgeFile
    /\ ret'.op \in {"add_agent_memory", "clear_agent_memories"}
          => Nodes' = Nodes /\ Edges' = Edges
    /\ ret'.op = "clear_agent_memories"
          => \A agent_name \in AgentNames :
                ClearAgentMemories(agent_name)
                   => OfOthers(Memories', agent_name) = OfOthers(Memories, agent_name)
    /\ ret'.op \in {"add_knowledge_node", "add_knowledge_edge"} => Memories' = Memories
    /\ ret'.op \in {"approve_request", "reject_request"}
          => /\ read_bridge_data'.auto_approve = read_bridge_data.auto_approve
             /\ Len(Requests') = Len(Requests)
             /\ \A i \in 1..Len(Requests) :
                   /\ Requests'[i].id = Requests[i].id
                   /\ Requests'[i].message = Requests[i].message
             /\ Cardinality(StatusChanged) <= 1
             /\ \A id \in CallIds :
                   DecisionStep(id) => \A i \in StatusChanged : Requests[i].id = id
    /\ ret'.op = "set_auto_approve" => Requests' = Requests

C24_NothingAfterDone ==
    cmd = "ollama" => \A i \in 1..Len(emitted) : emitted[i].done => i = Len(emitted)

\* ---- one channel per session

\* What the consumer of session s listens to.
Channel(s) == channels[EventName(sessions[s].kind)]

\* C23: every event delivered on a session's channel is that session's, and
\* an event with done = true is the last one delivered on the channel.
C23_OwnChannel ==
    cmd = "streams" =>
       \A s \in SessionIds :
          /\ \A i \in 1..Len(Channel(s)) : Channel(s)[i].from = s
          /\ \A i \in 1..Len(Channel(s)) : Channel(s)[i].done => i = Len(Channel(s))

\* ---- reading an insertion back

\* The part of the memory store a command inserts into, as the next load
\* returns it.
PartAfter(op) ==
    CASE op = "add_agent_memory" -> Memories'
      [] op = "add_knowledge_node" -> Nodes'
      [] op = "add_knowledge_edge" -> Edges'

\* C25: when add_agent_memory, add_knowledge_node or add_knowledge_edge
\* returns success, the item it returned is in the memory log, the node list
\* or the edge list that the next load returns.
C25_InsertedIsStored ==
    [][/\ ret'.ok
       /\ ret'.op \in {"add_agent_memory", "add_knowledge_node", "add_knowledge_edge"}
       => ret'.val[1] \in Elems(PartAfter(ret'.op))]_vars

\* ---- two mutators of the memory store

\* The mutation of the command that p ran is in the store a load returns.
Persisted(p) ==
    LET h == held[p]
    IN CASE h.op = "add_agent_memory" -> h.ret.val[1] \in Elems(Memories)
         [] h.op = "clear_agent_memories" ->
              \A i \in 1..Len(Memories) : ~EqualIgnoringCase(Memories[i].agent, h.arg)
         [] h.op = "add_knowledge_node" -> h.ret.val[1] \in Elems(Nodes)
         [] h.op = "add_knowledge_edge" -> h.ret.val[1] \in Elems(Edges)

\* C26: when a mutator of the memory log and a mutator of the knowledge
\* graph have run at the same time and both have returned success, both
\* mutations are in the persisted store, whatever the order of their loads
\* and saves.
C26_BothPersisted ==
    /\ cmd = "mutators"
    /\ \A p \in Procs : held[p].pc = "done" /\ held[p].ret.ok
    => \A p \in Procs : Persisted(p)
=============================================================================
